---- MODULE Spec2Model ----
(***************************************************************************)
(* The concurrent binary search tree of ch30 (btree.h and its              *)
(* implementation): a tree-wide pthread rwlock, one pthread mutex per      *)
(* node, and the operations bt_init, bt_destroy, bt_lookup, bt_add and     *)
(* bt_delete.  Every pthread_mutex_lock and pthread_mutex_unlock call of   *)
(* the code is a step of its own; the memory accesses between two lock     *)
(* calls belong to the step that ends with the next unlock.                *)
(*                                                                         *)
(* Node addresses are slots of an arena, one per key.  The program never   *)
(* compares or prints addresses, so which free slot an allocation gets is  *)
(* immaterial: node_new(key) takes the slot numbered like the key, and     *)
(* when the two-children delete has freed the successor, the surviving     *)
(* node is moved to the slot of the key it now carries (Relocate).  No     *)
(* thread holds a node pointer across that point.                          *)
(***************************************************************************)
EXTENDS Integers, Sequences, FiniteSets, TLC

\* ---- bounds ----------------------------------------------------------------
MaxKey == 4
MaxVal == 2
NumThreads == 2
ConcMaxKey == 4
ConcMaxVal == 1
DeepMaxKey == 5
DeepMaxVal == 1

\* ---- program constants -----------------------------------------------------
EINVAL == 22
ENOMEM == 12
NOTFOUND == 0 - 1

NULL == 0
\* every key a client of any run passes
MaxOf(a, b) == IF a > b THEN a ELSE b
Keys == 1..MaxOf(MaxKey, MaxOf(ConcMaxKey, DeepMaxKey))
Values == 1..MaxOf(MaxVal, MaxOf(ConcMaxVal, DeepMaxVal))
Threads == 1..NumThreads
Slots == Keys

VARIABLES
    root,      \* btree_t.root: a slot, or NULL
    node,      \* slot -> bt_node_t fields key, value, left, right (NoNode when free)
    mtx,       \* slot -> owner of bt_node_t.mtx (a thread), or NULL when unlocked
    rwlock,    \* btree_t.rwlock: [writer, readers]
    live,      \* the tree is between bt_init and bt_destroy
    loc,       \* thread -> the locals of the call it is executing
    pre,       \* thread -> the tree as it stood when the thread's write began
    abs,       \* key -> value, the map the completed calls add up to (NULL: absent)
    released,  \* values handed to free_value by the last bt_destroy, in call order
    thr,       \* the client threads of this run
    ks,        \* the keys the clients of this run pass
    vs         \* the values the clients of this run pass

vars == <<root, node, mtx, rwlock, live, loc, pre, abs, released, thr, ks, vs>>

NoNode == [key |-> NULL, value |-> NULL, left |-> NULL, right |-> NULL]
NoPre == [root |-> NULL, node |-> [s \in Slots |-> NoNode], used |-> FALSE]

Idle == [pc |-> "idle", op |-> "none", key |-> NULL, value |-> NULL, outp |-> FALSE,
         cur |-> NULL, parent |-> NULL, next |-> NULL,
         succ |-> NULL, succ_parent |-> NULL, fm_parent |-> NULL, fm_cur |-> NULL,
         rc |-> 0, found |-> FALSE, out |-> NULL]

\* what a finished call leaves with its caller: the call and its return value
Ret(l) == [Idle EXCEPT !.pc = "ret", !.op = l.op, !.rc = l.rc, !.found = l.found]

\* strcmp(a, b): negative, zero or positive
strcmp(a, b) == IF a < b THEN 0 - 1 ELSE IF a = b THEN 0 ELSE 1

\* ---- pure views of a tree (root r, nodes nd) -------------------------------
RECURSIVE InOrder(_, _)
InOrder(nd, n) ==
    IF n = NULL THEN <<>>
    ELSE InOrder(nd, nd[n].left) \o <<nd[n].key>> \o InOrder(nd, nd[n].right)

RECURSIVE Reach(_, _)
Reach(nd, n) ==
    IF n = NULL THEN {}
    ELSE {n} \cup Reach(nd, nd[n].left) \cup Reach(nd, nd[n].right)

\* the descent of bt_lookup, without the locks
RECURSIVE Find(_, _, _)
Find(nd, n, k) ==
    IF n = NULL THEN NULL
    ELSE IF strcmp(k, nd[n].key) = 0 THEN n
    ELSE IF strcmp(k, nd[n].key) < 0 THEN Find(nd, nd[n].left, k)
    ELSE Find(nd, nd[n].right, k)

ValueOf(nd, r, k) == IF Find(nd, r, k) = NULL THEN NULL ELSE nd[Find(nd, r, k)].value

Held(t) == {n \in Slots : mtx[n] = t}

\* ---- pthread primitives ----------------------------------------------------
\* pthread_mutex_unlock: the mutex is unlocked afterwards.  Unlocking a default
\* mutex the caller does not hold is undefined; glibc and musl both leave the
\* mutex unlocked, which is the outcome here.
MutexUnlock(m, n) == [m EXCEPT ![n] = NULL]

\* pthread_mutex_lock succeeds only on an unlocked mutex; a default mutex
\* locked again by its owner blocks like any other locker.
MutexFree(n) == mtx[n] = NULL

MutexLock(m, n, t) == [m EXCEPT ![n] = t]

\* (a wrlock that does not wait for the readers to leave)
WrLockFreeIgnoreReaders == rwlock.writer = NULL

\* pthread_rwlock_wrlock succeeds when there is neither a writer nor a reader
WrLockFree == rwlock.writer = NULL /\ rwlock.readers = {}

\* pthread_rwlock_rdlock succeeds when there is no writer
RdLockFree == rwlock.writer = NULL

\* ---- node_new / node_free --------------------------------------------------
\* node_new(key, value): a fresh node with no children, in the slot of its key
NodeNew(nd, k, v) == [nd EXCEPT ![k] = [key |-> k, value |-> v, left |-> NULL, right |-> NULL]]

NodeFree(nd, n) == [nd EXCEPT ![n] = NoNode]

Set(t, r) == loc' = [loc EXCEPT ![t] = r]

\* ---- bt_lookup -------------------------------------------------------------
LookupBegin(t) ==
    /\ live /\ loc[t].pc = "idle"
    /\ \E tree \in BOOLEAN, k \in ks \cup {NULL}, o \in BOOLEAN :
         LET l == [Idle EXCEPT !.op = "lookup", !.key = k, !.outp = o] IN
         IF ~tree \/ k = NULL
         THEN /\ Set(t, Ret([l EXCEPT !.found = FALSE]))
              /\ UNCHANGED rwlock
         ELSE /\ RdLockFree
              /\ rwlock' = [rwlock EXCEPT !.readers = @ \cup {t}]
              /\ Set(t, [l EXCEPT !.cur = root,
                                  !.pc = IF root = NULL THEN "l_out" ELSE "l_lock"])
    /\ UNCHANGED <<root, node, mtx, live, pre, abs, released, thr, ks, vs>>

LookupLock(t) ==
    /\ loc[t].pc = "l_lock"
    /\ MutexFree(loc[t].cur)
    /\ mtx' = MutexLock(mtx, loc[t].cur, t)
    /\ Set(t, [loc[t] EXCEPT !.pc = "l_cmp"])
    /\ UNCHANGED <<root, node, rwlock, live, pre, abs, released, thr, ks, vs>>

LookupCmp(t) ==
    /\ loc[t].pc = "l_cmp"
    /\ LET l == loc[t]
           cmp == strcmp(l.key, node[l.cur].key) IN
       IF cmp = 0
       THEN Set(t, [l EXCEPT !.out = IF l.outp THEN node[l.cur].value ELSE @,
                             !.pc = "l_unlock_found"])
       ELSE Set(t, [l EXCEPT !.next = IF cmp < 0 THEN node[l.cur].left ELSE node[l.cur].right,
                             !.pc = "l_unlock_next"])
    /\ UNCHANGED <<root, node, mtx, rwlock, live, pre, abs, released, thr, ks, vs>>

LookupUnlockFound(t) ==
    /\ loc[t].pc = "l_unlock_found"
    /\ mtx' = MutexUnlock(mtx, loc[t].cur)
    /\ Set(t, [loc[t] EXCEPT !.found = TRUE, !.pc = "l_out"])
    /\ UNCHANGED <<root, node, rwlock, live, pre, abs, released, thr, ks, vs>>

LookupUnlockNext(t) ==
    /\ loc[t].pc = "l_unlock_next"
    /\ mtx' = MutexUnlock(mtx, loc[t].cur)
    /\ Set(t, [loc[t] EXCEPT !.cur = loc[t].next, !.next = NULL,
                             !.pc = IF loc[t].next = NULL THEN "l_out" ELSE "l_lock"])
    /\ UNCHANGED <<root, node, rwlock, live, pre, abs, released, thr, ks, vs>>

LookupOut(t) ==
    /\ loc[t].pc = "l_out"
    /\ rwlock' = [rwlock EXCEPT !.readers = @ \ {t}]
    /\ Set(t, Ret(loc[t]))
    /\ UNCHANGED <<root, node, mtx, live, pre, abs, released, thr, ks, vs>>

\* ---- bt_add ----------------------------------------------------------------
\* lines 117-130: argument check, wrlock, the empty-tree insert
AddBegin(t) ==
    /\ live /\ loc[t].pc = "idle"
    /\ \E tree \in BOOLEAN, k \in ks \cup {NULL}, v \in vs :
         LET l == [Idle EXCEPT !.op = "add", !.key = k, !.value = v] IN
         IF ~tree \/ k = NULL
         THEN /\ Set(t, Ret([l EXCEPT !.rc = EINVAL]))
              /\ UNCHANGED <<root, node, rwlock, pre>>
         ELSE /\ WrLockFree
              /\ rwlock' = [rwlock EXCEPT !.writer = t]
              /\ pre' = [pre EXCEPT ![t] = [root |-> root, node |-> node, used |-> TRUE]]
              /\ IF root = NULL
                 THEN \E ok \in BOOLEAN :
                        IF ok
                        THEN /\ node' = NodeNew(node, k, v)
                             /\ root' = k
                             /\ Set(t, [l EXCEPT !.pc = "a_out", !.rc = 0])
                        ELSE /\ Set(t, [l EXCEPT !.pc = "a_out", !.rc = ENOMEM])
                             /\ UNCHANGED <<root, node>>
                 ELSE /\ Set(t, [l EXCEPT !.cur = root, !.pc = "a_lock_root"])
                      /\ UNCHANGED <<root, node>>
    /\ UNCHANGED <<mtx, live, abs, released, thr, ks, vs>>

\* line 131
AddLockRoot(t) ==
    /\ loc[t].pc = "a_lock_root"
    /\ MutexFree(loc[t].cur)
    /\ mtx' = MutexLock(mtx, loc[t].cur, t)
    /\ Set(t, [loc[t] EXCEPT !.pc = "a_loop"])
    /\ UNCHANGED <<root, node, rwlock, live, pre, abs, released, thr, ks, vs>>

\* (a replace that leaves the old value)
ReplaceValueKeepOld(nd, c, v) == nd

\* line 137: cur->value = value
ReplaceValue(nd, c, v) == [nd EXCEPT ![c].value = v]

\* lines 134-155: compare, then replace, insert or choose the child
AddLoop(t) ==
    /\ loc[t].pc = "a_loop"
    /\ LET l == loc[t]
           cmp == strcmp(l.key, node[l.cur].key)
           link == IF cmp < 0 THEN node[l.cur].left ELSE node[l.cur].right IN
       IF cmp = 0
       THEN /\ node' = ReplaceValue(node, l.cur, l.value)
            /\ Set(t, [l EXCEPT !.rc = 1, !.pc = "a_unlock_cur"])
       ELSE IF link = NULL
       THEN \E ok \in BOOLEAN :
              IF ok
              THEN /\ node' = [NodeNew(node, l.key, l.value) EXCEPT
                                 ![l.cur].left = IF cmp < 0 THEN l.key ELSE @,
                                 ![l.cur].right = IF cmp < 0 THEN @ ELSE l.key]
                   /\ Set(t, [l EXCEPT !.pc = "a_unlock_cur"])
              ELSE /\ Set(t, [l EXCEPT !.rc = ENOMEM, !.pc = "a_unlock_cur"])
                   /\ UNCHANGED node
       ELSE /\ Set(t, [l EXCEPT !.next = link, !.pc = "a_lock_next"])
            /\ UNCHANGED node
    /\ UNCHANGED <<root, mtx, rwlock, live, pre, abs, released, thr, ks, vs>>

\* lines 139, 148, 150
AddUnlockCur(t) ==
    /\ loc[t].pc = "a_unlock_cur"
    /\ mtx' = MutexUnlock(mtx, loc[t].cur)
    /\ Set(t, [loc[t] EXCEPT !.pc = "a_tail"])
    /\ UNCHANGED <<root, node, rwlock, live, pre, abs, released, thr, ks, vs>>

\* line 156
AddLockNext(t) ==
    /\ loc[t].pc = "a_lock_next"
    /\ MutexFree(loc[t].next)
    /\ mtx' = MutexLock(mtx, loc[t].next, t)
    /\ Set(t, [loc[t] EXCEPT !.pc = "a_unlock_parent"])
    /\ UNCHANGED <<root, node, rwlock, live, pre, abs, released, thr, ks, vs>>

\* lines 157-159
AddUnlockParent(t) ==
    /\ loc[t].pc = "a_unlock_parent"
    /\ mtx' = IF loc[t].parent # NULL THEN MutexUnlock(mtx, loc[t].parent) ELSE mtx
    /\ Set(t, [loc[t] EXCEPT !.parent = loc[t].cur, !.cur = loc[t].next, !.next = NULL,
                             !.pc = "a_loop"])
    /\ UNCHANGED <<root, node, rwlock, live, pre, abs, released, thr, ks, vs>>

\* line 162
AddTail(t) ==
    /\ loc[t].pc = "a_tail"
    /\ mtx' = IF loc[t].parent # NULL THEN MutexUnlock(mtx, loc[t].parent) ELSE mtx
    /\ Set(t, [loc[t] EXCEPT !.pc = "a_out"])
    /\ UNCHANGED <<root, node, rwlock, live, pre, abs, released, thr, ks, vs>>

\* lines 164-166
AddOut(t) ==
    /\ loc[t].pc = "a_out"
    /\ rwlock' = [rwlock EXCEPT !.writer = NULL]
    /\ abs' = IF loc[t].rc \in {0, 1} THEN [abs EXCEPT ![loc[t].key] = loc[t].value] ELSE abs
    /\ Set(t, Ret(loc[t]))
    /\ pre' = [pre EXCEPT ![t] = NoPre]
    /\ UNCHANGED <<root, node, mtx, live, released, thr, ks, vs>>

\* ---- bt_delete -------------------------------------------------------------
\* The slot a freed successor leaves is taken by the node that now carries its
\* key: the node in slot `from` moves to slot `to`, with every link to it.
RelocNode(nd, from, to) ==
    [s \in Slots |->
        LET src == IF s = to THEN nd[from] ELSE IF s = from THEN NoNode ELSE nd[s] IN
        [src EXCEPT !.left = IF @ = from THEN to ELSE @,
                    !.right = IF @ = from THEN to ELSE @]]

RelocRoot(r, from, to) == IF r = from THEN to ELSE r

RelocMtx(m, from, to) == [m EXCEPT ![to] = m[from], ![from] = NULL]

\* (an argument check that comes after the wrlock and returns with it held)
DeleteBeginLockFirst(t) ==
    /\ live /\ loc[t].pc = "idle"
    /\ WrLockFree
    /\ rwlock' = [rwlock EXCEPT !.writer = t]
    /\ \E tree \in BOOLEAN, k \in ks \cup {NULL}, o \in BOOLEAN :
         LET l == [Idle EXCEPT !.op = "delete", !.key = k, !.outp = o, !.rc = NOTFOUND] IN
         IF ~tree \/ k = NULL
         THEN /\ Set(t, Ret([l EXCEPT !.rc = EINVAL]))
              /\ UNCHANGED pre
         ELSE /\ pre' = [pre EXCEPT ![t] = [root |-> root, node |-> node, used |-> TRUE]]
              /\ Set(t, [l EXCEPT !.cur = root,
                                  !.pc = IF root = NULL THEN "d_out" ELSE "d_lock_root"])
    /\ UNCHANGED <<root, node, mtx, live, abs, released, thr, ks, vs>>

\* lines 187-196: argument check, wrlock, the empty-tree return
DeleteBegin(t) ==
    /\ live /\ loc[t].pc = "idle"
    /\ \E tree \in BOOLEAN, k \in ks \cup {NULL}, o \in BOOLEAN :
         LET l == [Idle EXCEPT !.op = "delete", !.key = k, !.outp = o, !.rc = NOTFOUND] IN
         IF ~tree \/ k = NULL
         THEN /\ Set(t, Ret([l EXCEPT !.rc = EINVAL]))
              /\ UNCHANGED <<rwlock, pre>>
         ELSE /\ WrLockFree
              /\ rwlock' = [rwlock EXCEPT !.writer = t]
              /\ pre' = [pre EXCEPT ![t] = [root |-> root, node |-> node, used |-> TRUE]]
              /\ Set(t, [l EXCEPT !.cur = root,
                                  !.pc = IF root = NULL THEN "d_out" ELSE "d_lock_root"])
    /\ UNCHANGED <<root, node, mtx, live, abs, released, thr, ks, vs>>

\* line 198
DeleteLockRoot(t) ==
    /\ loc[t].pc = "d_lock_root"
    /\ MutexFree(loc[t].cur)
    /\ mtx' = MutexLock(mtx, loc[t].cur, t)
    /\ Set(t, [loc[t] EXCEPT !.pc = "d_loop"])
    /\ UNCHANGED <<root, node, rwlock, live, pre, abs, released, thr, ks, vs>>

\* lines 201-204 and 211: the loop test and the choice of the child
DeleteLoop(t) ==
    /\ loc[t].pc = "d_loop"
    /\ LET l == loc[t]
           cmp == strcmp(l.key, node[l.cur].key)
           nxt == IF cmp < 0 THEN node[l.cur].left ELSE node[l.cur].right IN
       IF cmp = 0
       THEN Set(t, [l EXCEPT !.pc = "d_found"])
       ELSE IF nxt = NULL
       THEN Set(t, [l EXCEPT !.pc = "d_nf_unlock_cur"])
       ELSE Set(t, [l EXCEPT !.next = nxt, !.pc = "d_lock_next"])
    /\ UNCHANGED <<root, node, mtx, rwlock, live, pre, abs, released, thr, ks, vs>>

\* (a not-found exit that reports success)
DeleteNfUnlockCurDeleted(t) ==
    /\ loc[t].pc = "d_nf_unlock_cur"
    /\ mtx' = MutexUnlock(mtx, loc[t].cur)
    /\ Set(t, [loc[t] EXCEPT !.rc = 0, !.pc = "d_out"])
    /\ UNCHANGED <<root, node, rwlock, live, pre, abs, released, thr, ks, vs>>

\* line 204: the not-found exit unlocks cur, and only cur
DeleteNfUnlockCur(t) ==
    /\ loc[t].pc = "d_nf_unlock_cur"
    /\ mtx' = MutexUnlock(mtx, loc[t].cur)
    /\ Set(t, [loc[t] EXCEPT !.rc = NOTFOUND, !.pc = "d_out"])
    /\ UNCHANGED <<root, node, rwlock, live, pre, abs, released, thr, ks, vs>>

\* (a step down that drops the current node's mutex before it takes the child's)
DeleteLockNextAfterUnlock(t) ==
    /\ loc[t].pc = "d_lock_next"
    /\ MutexFree(loc[t].next)
    /\ mtx' = MutexLock(MutexUnlock(mtx, loc[t].cur), loc[t].next, t)
    /\ Set(t, [loc[t] EXCEPT !.pc = "d_unlock_parent"])
    /\ UNCHANGED <<root, node, rwlock, live, pre, abs, released, thr, ks, vs>>

\* line 205
DeleteLockNext(t) ==
    /\ loc[t].pc = "d_lock_next"
    /\ MutexFree(loc[t].next)
    /\ mtx' = MutexLock(mtx, loc[t].next, t)
    /\ Set(t, [loc[t] EXCEPT !.pc = "d_unlock_parent"])
    /\ UNCHANGED <<root, node, rwlock, live, pre, abs, released, thr, ks, vs>>

\* lines 206-208
DeleteUnlockParent(t) ==
    /\ loc[t].pc = "d_unlock_parent"
    /\ mtx' = IF loc[t].parent # NULL THEN MutexUnlock(mtx, loc[t].parent) ELSE mtx
    /\ Set(t, [loc[t] EXCEPT !.parent = loc[t].cur, !.cur = loc[t].next, !.next = NULL,
                             !.pc = "d_loop"])
    /\ UNCHANGED <<root, node, rwlock, live, pre, abs, released, thr, ks, vs>>

\* (a relink that always takes the parent's left link)
RelinkLeftOnly(nd, p, c, child) == [nd EXCEPT ![p].left = child]

\* lines 224-225: the parent's link to cur now leads to cur's child
Relink(nd, p, c, child) ==
    IF nd[p].left = c THEN [nd EXCEPT ![p].left = child] ELSE [nd EXCEPT ![p].right = child]

\* lines 214-226 (at most one child: relink) or 214, 217, 235-236 and 172-173
\* (two children: enter find_min_locked)
DeleteFound(t) ==
    /\ loc[t].pc = "d_found"
    /\ LET l == loc[t]
           c == node[l.cur]
           o == IF l.outp THEN c.value ELSE l.out
           child == IF c.left # NULL THEN c.left ELSE c.right IN
       IF c.left = NULL \/ c.right = NULL
       THEN /\ IF l.parent = NULL
               THEN /\ root' = child
                    /\ UNCHANGED node
               ELSE /\ node' = Relink(node, l.parent, l.cur, child)
                    /\ UNCHANGED root
            /\ Set(t, [l EXCEPT !.out = o, !.pc = "d_c1_unlock_cur"])
       ELSE /\ Set(t, [l EXCEPT !.out = o, !.fm_parent = l.cur, !.fm_cur = c.right,
                                !.pc = "fm_lock"])
            /\ UNCHANGED <<root, node>>
    /\ UNCHANGED <<mtx, rwlock, live, pre, abs, released, thr, ks, vs>>

\* line 227
DeleteC1UnlockCur(t) ==
    /\ loc[t].pc = "d_c1_unlock_cur"
    /\ mtx' = MutexUnlock(mtx, loc[t].cur)
    /\ Set(t, [loc[t] EXCEPT !.pc = "d_c1_unlock_parent"])
    /\ UNCHANGED <<root, node, rwlock, live, pre, abs, released, thr, ks, vs>>

\* lines 228-231: unlock the parent, node_free(cur)
DeleteC1UnlockParent(t) ==
    /\ loc[t].pc = "d_c1_unlock_parent"
    /\ mtx' = IF loc[t].parent # NULL THEN MutexUnlock(mtx, loc[t].parent) ELSE mtx
    /\ node' = NodeFree(node, loc[t].cur)
    /\ Set(t, [loc[t] EXCEPT !.rc = 0, !.pc = "d_out"])
    /\ UNCHANGED <<root, rwlock, live, pre, abs, released, thr, ks, vs>>

\* find_min_locked, line 174
FmLock(t) ==
    /\ loc[t].pc = "fm_lock"
    /\ MutexFree(loc[t].fm_cur)
    /\ mtx' = MutexLock(mtx, loc[t].fm_cur, t)
    /\ Set(t, [loc[t] EXCEPT !.pc = "fm_loop"])
    /\ UNCHANGED <<root, node, rwlock, live, pre, abs, released, thr, ks, vs>>

\* find_min_locked, lines 175-176 and 182-183
FmLoop(t) ==
    /\ loc[t].pc = "fm_loop"
    /\ LET l == loc[t] IN
       IF node[l.fm_cur].left # NULL
       THEN Set(t, [l EXCEPT !.next = node[l.fm_cur].left, !.pc = "fm_lock_next"])
       ELSE Set(t, [l EXCEPT !.succ_parent = l.fm_parent, !.succ = l.fm_cur, !.pc = "d_c2"])
    /\ UNCHANGED <<root, node, mtx, rwlock, live, pre, abs, released, thr, ks, vs>>

\* find_min_locked, line 177
FmLockNext(t) ==
    /\ loc[t].pc = "fm_lock_next"
    /\ MutexFree(loc[t].next)
    /\ mtx' = MutexLock(mtx, loc[t].next, t)
    /\ Set(t, [loc[t] EXCEPT !.pc = "fm_unlock_parent"])
    /\ UNCHANGED <<root, node, rwlock, live, pre, abs, released, thr, ks, vs>>

\* find_min_locked, lines 178-180: the first pass unlocks `start` itself
FmUnlockParent(t) ==
    /\ loc[t].pc = "fm_unlock_parent"
    /\ mtx' = MutexUnlock(mtx, loc[t].fm_parent)
    /\ Set(t, [loc[t] EXCEPT !.fm_parent = loc[t].fm_cur, !.fm_cur = loc[t].next,
                             !.next = NULL, !.pc = "fm_loop"])
    /\ UNCHANGED <<root, node, rwlock, live, pre, abs, released, thr, ks, vs>>

\* (a splice that drops the successor's right subtree)
SpliceDropChild(nd, c, sc, sp) ==
    IF sp = c THEN [nd EXCEPT ![c].right = NULL] ELSE [nd EXCEPT ![sp].left = NULL]

\* lines 256-261: the successor's right child takes the successor's place
Splice(nd, c, sc, sp) ==
    IF sp = c THEN [nd EXCEPT ![c].right = nd[sc].right]
    ELSE [nd EXCEPT ![sp].left = nd[sc].right]

\* lines 240-261: strdup of the successor's key, then key, value and splice
DeleteC2(t) ==
    /\ loc[t].pc = "d_c2"
    /\ LET l == loc[t]
           s == node[l.succ] IN
       \E ok \in BOOLEAN :
         IF ~ok
         THEN /\ Set(t, [l EXCEPT !.pc = "d_oom_unlock_succ"])
              /\ UNCHANGED node
         ELSE /\ node' = Splice([node EXCEPT
                                    ![l.cur].key = s.key,
                                    ![l.cur].value = IF l.outp THEN @ ELSE s.value],
                                 l.cur, l.succ, l.succ_parent)
              /\ Set(t, [l EXCEPT !.out = IF l.outp THEN s.value ELSE @,
                                  !.pc = "d_c2_unlock_succ"])
    /\ UNCHANGED <<root, mtx, rwlock, live, pre, abs, released, thr, ks, vs>>

\* line 243
DeleteOomUnlockSucc(t) ==
    /\ loc[t].pc = "d_oom_unlock_succ"
    /\ mtx' = MutexUnlock(mtx, loc[t].succ)
    /\ Set(t, [loc[t] EXCEPT !.pc = "d_oom_unlock_sp"])
    /\ UNCHANGED <<root, node, rwlock, live, pre, abs, released, thr, ks, vs>>

\* line 244
DeleteOomUnlockSp(t) ==
    /\ loc[t].pc = "d_oom_unlock_sp"
    /\ mtx' = IF loc[t].succ_parent # NULL THEN MutexUnlock(mtx, loc[t].succ_parent) ELSE mtx
    /\ Set(t, [loc[t] EXCEPT !.pc = "d_oom_unlock_cur"])
    /\ UNCHANGED <<root, node, rwlock, live, pre, abs, released, thr, ks, vs>>

\* line 245
DeleteOomUnlockCur(t) ==
    /\ loc[t].pc = "d_oom_unlock_cur"
    /\ mtx' = MutexUnlock(mtx, loc[t].cur)
    /\ Set(t, [loc[t] EXCEPT !.pc = "d_oom_unlock_parent"])
    /\ UNCHANGED <<root, node, rwlock, live, pre, abs, released, thr, ks, vs>>

\* lines 246-248
DeleteOomUnlockParent(t) ==
    /\ loc[t].pc = "d_oom_unlock_parent"
    /\ mtx' = IF loc[t].parent # NULL THEN MutexUnlock(mtx, loc[t].parent) ELSE mtx
    /\ Set(t, [loc[t] EXCEPT !.rc = ENOMEM, !.pc = "d_out"])
    /\ UNCHANGED <<root, node, rwlock, live, pre, abs, released, thr, ks, vs>>

\* line 263
DeleteC2UnlockSucc(t) ==
    /\ loc[t].pc = "d_c2_unlock_succ"
    /\ mtx' = MutexUnlock(mtx, loc[t].succ)
    /\ Set(t, [loc[t] EXCEPT !.pc = "d_c2_unlock_sp"])
    /\ UNCHANGED <<root, node, rwlock, live, pre, abs, released, thr, ks, vs>>

\* line 264
DeleteC2UnlockSp(t) ==
    /\ loc[t].pc = "d_c2_unlock_sp"
    /\ mtx' = MutexUnlock(mtx, loc[t].succ_parent)
    /\ Set(t, [loc[t] EXCEPT !.pc = "d_c2_unlock_cur"])
    /\ UNCHANGED <<root, node, rwlock, live, pre, abs, released, thr, ks, vs>>

\* line 265
DeleteC2UnlockCur(t) ==
    /\ loc[t].pc = "d_c2_unlock_cur"
    /\ mtx' = MutexUnlock(mtx, loc[t].cur)
    /\ Set(t, [loc[t] EXCEPT !.pc = "d_c2_unlock_parent"])
    /\ UNCHANGED <<root, node, rwlock, live, pre, abs, released, thr, ks, vs>>

\* lines 266-269: unlock the parent, node_free(succ); the survivor takes the
\* freed slot, and the pointer locals are dead from here on
DeleteC2UnlockParent(t) ==
    /\ loc[t].pc = "d_c2_unlock_parent"
    /\ LET l == loc[t]
           m == IF l.parent # NULL THEN MutexUnlock(mtx, l.parent) ELSE mtx IN
       /\ node' = RelocNode(NodeFree(node, l.succ), l.cur, l.succ)
       /\ root' = RelocRoot(root, l.cur, l.succ)
       /\ mtx' = RelocMtx(MutexUnlock(m, l.succ), l.cur, l.succ)
       /\ Set(t, [l EXCEPT !.rc = 0, !.pc = "d_out", !.cur = NULL, !.parent = NULL,
                           !.succ = NULL, !.succ_parent = NULL,
                           !.fm_cur = NULL, !.fm_parent = NULL])
    /\ UNCHANGED <<rwlock, live, pre, abs, released, thr, ks, vs>>

\* lines 271-273
DeleteOut(t) ==
    /\ loc[t].pc = "d_out"
    /\ rwlock' = [rwlock EXCEPT !.writer = NULL]
    /\ abs' = IF loc[t].rc = 0 THEN [abs EXCEPT ![loc[t].key] = NULL] ELSE abs
    /\ Set(t, Ret(loc[t]))
    /\ pre' = [pre EXCEPT ![t] = NoPre]
    /\ UNCHANGED <<root, node, mtx, live, released, thr, ks, vs>>

\* ---- bt_init / bt_destroy --------------------------------------------------
\* (a teardown that frees a node before its children)
RECURSIVE node_free_preorder(_, _)
node_free_preorder(nd, n) ==
    IF n = NULL THEN <<>>
    ELSE <<n>> \o node_free_preorder(nd, nd[n].left) \o node_free_preorder(nd, nd[n].right)

\* node_free_recursive: the nodes in the order node_free is called on them
RECURSIVE node_free_recursive(_, _)
node_free_recursive(nd, n) ==
    IF n = NULL THEN <<>>
    ELSE node_free_recursive(nd, nd[n].left) \o node_free_recursive(nd, nd[n].right) \o <<n>>

\* node_free(n, free_value): what free_value is called with, if it is called
node_free(nd, n, free_value) ==
    IF free_value THEN <<[n |-> n, value |-> nd[n].value]>> ELSE <<>>

RECURSIVE FreeAll(_, _, _)
FreeAll(nd, order, free_value) ==
    IF order = <<>> THEN <<>>
    ELSE node_free(nd, Head(order), free_value) \o FreeAll(nd, Tail(order), free_value)

Range(q) == {q[i] : i \in 1..Len(q)}

\* bt_destroy, lines 77-84, as one step: it takes no node mutex, and the caller
\* guarantees that no other call is in flight.  A node mutex that an earlier
\* call left locked is destroyed with its node.
Destroy(t) ==
    /\ live /\ loc[t].pc = "idle"
    /\ \A u \in thr : loc[u].pc = "idle"
    /\ \E tree \in BOOLEAN, free_value \in BOOLEAN :
         LET l == [Idle EXCEPT !.op = "destroy", !.outp = free_value, !.pc = "ret"]
             order == node_free_recursive(node, root) IN
         IF ~tree
         THEN /\ Set(t, l)
              /\ UNCHANGED <<root, node, mtx, live, abs, released, pre>>
         ELSE /\ WrLockFree
              /\ released' = FreeAll(node, order, free_value)
              /\ node' = [s \in Slots |-> IF s \in Range(order) THEN NoNode ELSE node[s]]
              /\ mtx' = [s \in Slots |-> IF s \in Range(order) THEN NULL ELSE mtx[s]]
              /\ root' = NULL
              /\ live' = FALSE
              /\ abs' = [k \in Keys |-> NULL]
              /\ pre' = [pre EXCEPT ![t] = [root |-> root, node |-> node, used |-> TRUE]]
              /\ Set(t, l)
    /\ UNCHANGED <<rwlock, thr, ks, vs>>

\* bt_init, lines 71-75; callers initialise only a tree that is not in use
BtInit(t) ==
    /\ loc[t].pc = "idle"
    /\ \E tree \in BOOLEAN :
         LET l == [Idle EXCEPT !.op = "init", !.pc = "ret"] IN
         IF ~tree
         THEN /\ Set(t, [l EXCEPT !.rc = EINVAL])
              /\ UNCHANGED <<root, live, released>>
         ELSE /\ ~live
              /\ root' = NULL
              /\ live' = TRUE
              /\ released' = <<>>
              /\ Set(t, [l EXCEPT !.rc = 0])
    /\ UNCHANGED <<node, mtx, rwlock, pre, abs, thr, ks, vs>>

\* the caller takes the result and is ready for its next call
Return(t) ==
    /\ loc[t].pc = "ret"
    /\ Set(t, Idle)
    /\ pre' = [pre EXCEPT ![t] = NoPre]
    /\ UNCHANGED <<root, node, mtx, rwlock, live, abs, released, thr, ks, vs>>

\* ---- specifications --------------------------------------------------------
InitTree ==
    /\ root = NULL
    /\ node = [s \in Slots |-> NoNode]
    /\ mtx = [s \in Slots |-> NULL]
    /\ rwlock = [writer |-> NULL, readers |-> {}]
    /\ live = TRUE
    /\ loc = [t \in Threads |-> Idle]
    /\ pre = [t \in Threads |-> NoPre]
    /\ abs = [k \in Keys |-> NULL]
    /\ released = <<>>

Init == InitTree /\ thr = {1} /\ ks = 1..MaxKey /\ vs = 1..MaxVal

Next ==
    \/ \E t \in thr : LookupBegin(t)
    \/ \E t \in thr : LookupLock(t)
    \/ \E t \in thr : LookupCmp(t)
    \/ \E t \in thr : LookupUnlockFound(t)
    \/ \E t \in thr : LookupUnlockNext(t)
    \/ \E t \in thr : LookupOut(t)
    \/ \E t \in thr : AddBegin(t)
    \/ \E t \in thr : AddLockRoot(t)
    \/ \E t \in thr : AddLoop(t)
    \/ \E t \in thr : AddUnlockCur(t)
    \/ \E t \in thr : AddLockNext(t)
    \/ \E t \in thr : AddUnlockParent(t)
    \/ \E t \in thr : AddTail(t)
    \/ \E t \in thr : AddOut(t)
    \/ \E t \in thr : DeleteBegin(t)
    \/ \E t \in thr : DeleteLockRoot(t)
    \/ \E t \in thr : DeleteLoop(t)
    \/ \E t \in thr : DeleteNfUnlockCur(t)
    \/ \E t \in thr : DeleteLockNext(t)
    \/ \E t \in thr : DeleteUnlockParent(t)
    \/ \E t \in thr : DeleteFound(t)
    \/ \E t \in thr : DeleteC1UnlockCur(t)
    \/ \E t \in thr : DeleteC1UnlockParent(t)
    \/ \E t \in thr : FmLock(t)
    \/ \E t \in thr : FmLoop(t)
    \/ \E t \in thr : FmLockNext(t)
    \/ \E t \in thr : FmUnlockParent(t)
    \/ \E t \in thr : DeleteC2(t)
    \/ \E t \in thr : DeleteOomUnlockSucc(t)
    \/ \E t \in thr : DeleteOomUnlockSp(t)
    \/ \E t \in thr : DeleteOomUnlockCur(t)
    \/ \E t \in thr : DeleteOomUnlockParent(t)
    \/ \E t \in thr : DeleteC2UnlockSucc(t)
    \/ \E t \in thr : DeleteC2UnlockSp(t)
    \/ \E t \in thr : DeleteC2UnlockCur(t)
    \/ \E t \in thr : DeleteC2UnlockParent(t)
    \/ \E t \in thr : DeleteOut(t)
    \/ \E t \in thr : Destroy(t)
    \/ \E t \in thr : BtInit(t)
    \/ \E t \in thr : Return(t)

Spec == Init /\ [][Next]_vars

\* the same program with NumThreads client threads
InitConc == InitTree /\ thr = Threads /\ ks = 1..ConcMaxKey /\ vs = 1..ConcMaxVal

ConcSpec == InitConc /\ [][Next]_vars

\* one client thread again, with one key more and a single value
InitDeep == InitTree /\ thr = {1} /\ ks = 1..DeepMaxKey /\ vs = 1..DeepMaxVal

DeepSpec == InitDeep /\ [][Next]_vars

\* ---- properties ------------------------------------------------------------
Present(nd, r, k) == Find(nd, r, k) # NULL

Remove(q, k) == SelectSeq(q, LAMBDA x : x # k)

StrictlyIncreasing(q) == \A i \in 1..(Len(q) - 1) : q[i] < q[i + 1]

\* the slot whose left or right link is n, or NULL for the root
ParentOf(nd, n) ==
    IF \E p \in Slots : nd[p].key # NULL /\ n \in {nd[p].left, nd[p].right}
    THEN CHOOSE p \in Slots : nd[p].key # NULL /\ n \in {nd[p].left, nd[p].right}
    ELSE NULL

\* C1: a bt_delete of a present key with a non-null output returns 0 and hands
\* out the value that was stored under that key before the call (allocation
\* failure aside).
DeleteReturnsStoredValue ==
    \A t \in thr :
        (/\ loc[t].pc = "d_out"
         /\ loc[t].outp
         /\ loc[t].rc # ENOMEM
         /\ Present(pre[t].node, pre[t].root, loc[t].key))
        => /\ loc[t].rc = 0
           /\ loc[t].out = ValueOf(pre[t].node, pre[t].root, loc[t].key)

\* C2: bt_lookup answers from the map that the completed bt_add and bt_delete
\* calls add up to, and a bt_delete of k leaves the value of every other key.
LookupAgreesWithMap ==
    /\ \A t \in thr :
           loc[t].pc = "l_out"
           => /\ loc[t].found <=> abs[loc[t].key] # NULL
              /\ (loc[t].found /\ loc[t].outp) => loc[t].out = abs[loc[t].key]
    /\ \A t \in thr :
           loc[t].pc = "d_out"
           => \A k \in Keys \ {loc[t].key} :
                  ValueOf(node, root, k) = ValueOf(pre[t].node, pre[t].root, k)

\* C3: between calls the nodes reachable from the root form a binary search
\* tree without duplicate keys: the in-order key sequence is strictly
\* increasing and no node is reached twice.
BstOrdered ==
    rwlock.writer = NULL
    => /\ StrictlyIncreasing(InOrder(node, root))
       /\ Len(InOrder(node, root)) = Cardinality(Reach(node, root))
       /\ \A n \in Reach(node, root) :
              /\ \A m \in Reach(node, node[n].left) : node[m].key < node[n].key
              /\ \A m \in Reach(node, node[n].right) : node[m].key > node[n].key

BstOrderedWitness ==
    /\ rwlock.writer = NULL
    /\ Len(InOrder(node, root)) >= 3
    /\ \E t \in thr : loc[t].pc = "ret" /\ loc[t].op = "delete" /\ loc[t].rc = 0

\* C4: a successful bt_delete of k removes k and nothing else from the
\* in-order key sequence; when k's node had two children, k's place in the
\* tree (same parent link, same left subtree) holds its in-order successor's
\* former key.
DeleteRemovesExactlyKey ==
    \A t \in thr :
        (loc[t].pc = "d_out" /\ loc[t].rc = 0)
        => LET pn == pre[t].node
               pr == pre[t].root
               k == loc[t].key
               n0 == Find(pn, pr, k)
               sk == Head(InOrder(pn, pn[n0].right))
               s == Find(node, root, sk)
           IN  /\ n0 # NULL
               /\ InOrder(node, root) = Remove(InOrder(pn, pr), k)
               /\ Len(InOrder(node, root)) = Len(InOrder(pn, pr)) - 1
               /\ (pn[n0].left # NULL /\ pn[n0].right # NULL)
                  => /\ s # NULL
                     /\ node[s].left = pn[n0].left
                     /\ IF n0 = pr THEN root = s
                        ELSE LET p == ParentOf(pn, n0) IN
                             IF pn[p].left = n0 THEN node[p].left = s
                             ELSE node[p].right = s

\* a two-children delete whose successor lay deeper than the right child
DeleteRemovesExactlyKeyWitness ==
    \E t \in thr :
        /\ loc[t].pc = "d_out" /\ loc[t].rc = 0
        /\ LET pn == pre[t].node
               n0 == Find(pn, pre[t].root, loc[t].key) IN
           /\ n0 # NULL
           /\ pn[n0].left # NULL /\ pn[n0].right # NULL
           /\ pn[pn[n0].right].left # NULL

\* the mutex a thread is about to lock, or NULL
LockTarget(t) ==
    IF loc[t].pc \in {"l_lock", "a_lock_root", "d_lock_root"} THEN loc[t].cur
    ELSE IF loc[t].pc \in {"a_lock_next", "d_lock_next", "fm_lock_next"} THEN loc[t].next
    ELSE IF loc[t].pc = "fm_lock" THEN loc[t].fm_cur
    ELSE NULL

\* t waits for a mutex whose owner is not inside any call (or is t itself):
\* nobody will ever unlock it
BlockedForever(t) ==
    /\ LockTarget(t) # NULL
    /\ mtx[LockTarget(t)] # NULL
    /\ \/ mtx[LockTarget(t)] = t
       \/ loc[mtx[LockTarget(t)]].pc \in {"idle", "ret"}

\* C5: no reachable state has a thread blocked forever on a node mutex, so
\* every invoked operation returns.
NoThreadBlockedForever == \A t \in thr : ~BlockedForever(t)

WritePcs ==
    {"a_lock_root", "a_loop", "a_unlock_cur", "a_lock_next", "a_unlock_parent", "a_tail",
     "a_out", "d_lock_root", "d_loop", "d_nf_unlock_cur", "d_lock_next", "d_unlock_parent",
     "d_found", "d_c1_unlock_cur", "d_c1_unlock_parent", "fm_lock", "fm_loop",
     "fm_lock_next", "fm_unlock_parent", "d_c2", "d_oom_unlock_succ", "d_oom_unlock_sp",
     "d_oom_unlock_cur", "d_oom_unlock_parent", "d_c2_unlock_succ", "d_c2_unlock_sp",
     "d_c2_unlock_cur", "d_c2_unlock_parent", "d_out"}

ReadPcs == {"l_lock", "l_cmp", "l_unlock_found", "l_unlock_next", "l_out"}

Writers == {t \in thr : loc[t].pc \in WritePcs}

Readers == {t \in thr : loc[t].pc \in ReadPcs}

\* C6: at most one thread is between the wrlock and the unlock of bt_add or
\* bt_delete, none is inside bt_lookup while one is, and a bt_lookup returns
\* what a lookup of the tree as it stands returns.
WritesExclusive ==
    /\ Cardinality(Writers) <= 1
    /\ Writers # {} => Readers = {}
    /\ \A t \in thr :
           loc[t].pc = "l_out"
           => /\ loc[t].found <=> Present(node, root, loc[t].key)
              /\ (loc[t].found /\ loc[t].outp) => loc[t].out = ValueOf(node, root, loc[t].key)

\* two lookups inside their descent at once, one of them below the root
WritesExclusiveWitness ==
    \E t, u \in thr :
        /\ t # u
        /\ loc[t].pc = "l_cmp" /\ loc[u].pc = "l_cmp"
        /\ loc[t].cur # root

\* C7: bt_add of a key the tree holds returns 1, creates no node, leaves the
\* keys as they were and stores the new value; bt_add of a key the tree does
\* not hold returns 0 and adds exactly one node for it (allocation failure
\* aside); a lookup of the key then finds the value just passed.
AddTwiceOneNode ==
    \A t \in thr :
        (loc[t].pc = "a_out" /\ loc[t].rc # ENOMEM)
        => LET pn == pre[t].node
               pr == pre[t].root
               k == loc[t].key
           IN  /\ ValueOf(node, root, k) = loc[t].value
               /\ Cardinality({n \in Reach(node, root) : node[n].key = k}) = 1
               /\ IF Present(pn, pr, k)
                  THEN /\ loc[t].rc = 1
                       /\ Reach(node, root) = Reach(pn, pr)
                       /\ InOrder(node, root) = InOrder(pn, pr)
                       /\ \A n \in Slots : node[n].key = pn[n].key
                  ELSE /\ loc[t].rc = 0
                       /\ Cardinality(Reach(node, root)) = Cardinality(Reach(pn, pr)) + 1
                       /\ Remove(InOrder(node, root), k) = InOrder(pn, pr)

\* a replace, below the root, that changed the value
AddTwiceOneNodeWitness ==
    \E t \in thr :
        /\ loc[t].pc = "a_out" /\ loc[t].rc = 1
        /\ loc[t].parent # NULL
        /\ ValueOf(pre[t].node, pre[t].root, loc[t].key) # loc[t].value

\* C8: bt_delete of an absent key returns -1, leaves root, links, keys and
\* values as they were and does not write the caller's output.
DeleteAbsentNoEffect ==
    \A t \in thr :
        (loc[t].pc = "d_out" /\ ~Present(pre[t].node, pre[t].root, loc[t].key))
        => /\ loc[t].rc = NOTFOUND
           /\ node = pre[t].node
           /\ root = pre[t].root
           /\ loc[t].out = NULL

\* the search fell off below the root, with an output pointer passed
DeleteAbsentNoEffectWitness ==
    \E t \in thr :
        /\ loc[t].pc = "d_out" /\ loc[t].rc = NOTFOUND
        /\ loc[t].outp /\ loc[t].parent # NULL

\* C9: bt_destroy with a callback calls it once for every node that was in the
\* tree, children before their parent, with that node's value, and empties
\* the root; the value bt_delete hands out is the value of the node it frees,
\* which is out of the tree by then.
DestroyReleasesEachOnce ==
    /\ \A t \in thr :
           (loc[t].pc = "ret" /\ loc[t].op = "destroy" /\ pre[t].used /\ ~live)
           => /\ root = NULL
              /\ \A n \in Slots : node[n] = NoNode
              /\ IF loc[t].outp
                 THEN LET R == Reach(pre[t].node, pre[t].root) IN
                      /\ Len(released) = Cardinality(R)
                      /\ {released[i].n : i \in 1..Len(released)} = R
                      /\ \A i \in 1..Len(released) :
                             released[i].value = pre[t].node[released[i].n].value
                      /\ \A i, j \in 1..Len(released) :
                             (i < j) => released[j].n \notin Reach(pre[t].node, released[i].n)
                 ELSE released = <<>>
    /\ \A t \in thr :
           /\ (loc[t].pc = "d_c1_unlock_parent")
              => /\ loc[t].cur \notin Reach(node, root)
                 /\ loc[t].outp => loc[t].out = node[loc[t].cur].value
           /\ (loc[t].pc = "d_c2_unlock_parent")
              => /\ loc[t].succ \notin Reach(node, root)
                 /\ loc[t].outp => loc[t].out = node[loc[t].succ].value

\* a teardown of a tree of at least three nodes, after a delete handed a
\* value out
DestroyReleasesEachOnceWitness ==
    \E t \in thr :
        /\ loc[t].pc = "ret" /\ loc[t].op = "destroy" /\ loc[t].outp /\ ~live
        /\ Len(released) >= 3
        /\ \E k \in Keys : ~Present(pre[t].node, pre[t].root, k)

\* C10: bt_add returns 0 or 1 on success and a value below 0 on every error.
AddErrorsNegative ==
    \A t \in thr :
        (loc[t].pc = "ret" /\ loc[t].op = "add") => (loc[t].rc \in {0, 1} \/ loc[t].rc < 0)

\* C11: a bt_add whose node allocation fails, and a two-children bt_delete
\* whose strdup of the successor's key fails, return ENOMEM with root, links,
\* keys and values as they were before the call, and the caller holds neither
\* the tree-wide lock nor any node mutex when the call has returned.
AllocFailureLeavesTree ==
    \A t \in thr :
        /\ (loc[t].pc \in {"a_out", "d_out"} /\ loc[t].rc = ENOMEM)
           => /\ node = pre[t].node
              /\ root = pre[t].root
        /\ (loc[t].pc = "ret" /\ loc[t].op \in {"add", "delete"} /\ loc[t].rc = ENOMEM)
           => /\ rwlock.writer # t
              /\ t \notin rwlock.readers
              /\ Held(t) = {}

DeleteNotFoundHoldsNothing ==
    \A t \in thr :
        /\ (loc[t].pc = "d_out" /\ loc[t].rc = NOTFOUND /\ loc[t].cur # NULL)
           => /\ mtx[loc[t].cur] # t
              /\ loc[t].parent # NULL => mtx[loc[t].parent] # t
        /\ (loc[t].pc = "ret" /\ loc[t].op = "delete" /\ loc[t].rc = NOTFOUND)
           => rwlock.writer # t

\* C14: a thread holds the mutex of every node whose key, value, left or right
\* its next step reads or writes: the node compared in the three descents, the
\* parent whose link a delete rewrites, the node find_min_locked looks at, and
\* in the two-children delete the successor, the successor's parent and the
\* matched node whose key and value are overwritten.
FieldsAccessedUnderMutex ==
    \A t \in thr :
        /\ loc[t].pc \in {"l_cmp", "a_loop", "d_loop", "d_found"} => mtx[loc[t].cur] = t
        /\ (loc[t].pc = "d_found" /\ loc[t].parent # NULL) => mtx[loc[t].parent] = t
        /\ loc[t].pc = "fm_loop" => mtx[loc[t].fm_cur] = t
        /\ loc[t].pc = "d_c2"
           => /\ mtx[loc[t].succ] = t
              /\ mtx[loc[t].succ_parent] = t
              /\ mtx[loc[t].cur] = t

\* C15: in the two-children bt_delete, when find_min_locked has returned the
\* thread holds the mutexes of the matched node, the successor, the
\* successor's parent and the matched node's parent (if any), and every
\* unlock that follows, on the success path and on the ENOMEM path, is of a
\* mutex the thread holds at that moment.
DeleteUnlocksOnlyHeld ==
    \A t \in thr :
        /\ loc[t].pc \in {"d_c2", "d_oom_unlock_succ", "d_c2_unlock_succ"}
           => /\ mtx[loc[t].succ] = t
              /\ mtx[loc[t].succ_parent] = t
              /\ mtx[loc[t].cur] = t
              /\ loc[t].parent # NULL => mtx[loc[t].parent] = t
        /\ loc[t].pc \in {"d_oom_unlock_sp", "d_c2_unlock_sp"} => mtx[loc[t].succ_parent] = t
        /\ loc[t].pc \in {"d_oom_unlock_cur", "d_c2_unlock_cur"} => mtx[loc[t].cur] = t
        /\ (loc[t].pc \in {"d_oom_unlock_parent", "d_c2_unlock_parent"} /\ loc[t].parent # NULL)
           => mtx[loc[t].parent] = t

\* C16: a thread that is about to lock a node mutex holds the tree-wide lock,
\* and the node is a proper descendant of every node whose mutex the thread
\* holds: never a node it holds already, an ancestor of one, or a node in
\* another subtree.
LocksTakenTopDown ==
    \A t \in thr :
        LockTarget(t) # NULL
        => /\ rwlock.writer = t \/ t \in rwlock.readers
           /\ \A n \in Held(t) :
                  /\ n # LockTarget(t)
                  /\ LockTarget(t) \in Reach(node, n)

\* C17: a bt_lookup or bt_add that has released its last node mutex and goes
\* on to return (found or not, inserted, replaced or ENOMEM) holds no node
\* mutex, and with no other call in flight every node mutex is unlocked; when
\* it has returned it does not hold the tree-wide lock.
LookupAddReturnUnlocked ==
    \A t \in thr :
        /\ loc[t].pc \in {"l_out", "a_out"}
           => /\ Held(t) = {}
              /\ (\A u \in thr \ {t} : loc[u].pc \in {"idle", "ret"})
                 => \A n \in Slots : mtx[n] = NULL
        /\ (loc[t].pc = "ret" /\ loc[t].op \in {"lookup", "add"})
           => /\ rwlock.writer # t
              /\ t \notin rwlock.readers

AddPcs ==
    {"a_lock_root", "a_loop", "a_unlock_cur", "a_lock_next", "a_unlock_parent", "a_tail",
     "a_out"}

\* C18: a thread inside bt_add holds at most two node mutexes at any moment.
AddHoldsAtMostTwo ==
    \A t \in thr : loc[t].pc \in AddPcs => Cardinality(Held(t)) <= 2

\* the steps of a write between the locking of the root and the unlock that
\* follows the decision
DescentPcs ==
    {"a_loop", "a_lock_next", "a_unlock_parent", "a_unlock_cur", "d_loop", "d_lock_next",
     "d_unlock_parent", "d_nf_unlock_cur", "d_found", "d_c1_unlock_cur", "fm_lock",
     "fm_loop", "fm_lock_next", "fm_unlock_parent", "d_c2"}

\* C19: in bt_add and bt_delete, from the locking of the root to the decision
\* (replace, insert, not found, relink or splice) the thread holds a node
\* mutex at every step, that of the node it is at; when it has locked a child
\* it still holds the mutex of the node it steps down from, and find_min_locked
\* steps down in the same way.
WriteDescentHasNoGap ==
    \A t \in thr :
        /\ loc[t].pc \in {"a_loop", "a_lock_next", "a_unlock_cur", "d_loop", "d_lock_next",
                           "d_nf_unlock_cur", "d_found", "d_c1_unlock_cur"}
           => mtx[loc[t].cur] = t
        /\ loc[t].pc \in {"a_unlock_parent", "d_unlock_parent"}
           => /\ mtx[loc[t].next] = t
              /\ mtx[loc[t].cur] = t
        /\ loc[t].pc \in {"fm_lock", "fm_lock_next"} => mtx[loc[t].fm_parent] = t
        /\ loc[t].pc \in {"fm_loop", "fm_lock_next"} => mtx[loc[t].fm_cur] = t
        /\ loc[t].pc = "fm_unlock_parent"
           => /\ mtx[loc[t].next] = t
              /\ mtx[loc[t].fm_cur] = t
              /\ mtx[loc[t].fm_parent] = t
        /\ loc[t].pc = "d_c2"
           => /\ mtx[loc[t].succ] = t
              /\ mtx[loc[t].succ_parent] = t
        /\ loc[t].pc \in DescentPcs => Held(t) # {}

\* a bt_delete two steps below the root that has just locked the next child
WriteDescentHasNoGapWitness ==
    \E t \in thr :
        /\ loc[t].pc = "d_unlock_parent"
        /\ loc[t].parent # NULL
        /\ Held(t) = {loc[t].parent, loc[t].cur, loc[t].next}

\* C20: a thread inside bt_lookup holds the tree-wide lock as a reader from
\* the rdlock to the unlock, holds at most one node mutex at any moment, and
\* holds none when it goes to lock a node.
LookupHoldsAtMostOne ==
    \A t \in thr :
        /\ loc[t].pc \in ReadPcs
           => /\ t \in rwlock.readers
              /\ Cardinality(Held(t)) <= 1
        /\ loc[t].pc = "l_lock" => Held(t) = {}

====
